---- MODULE Spec2Model ----
(***************************************************************************)
(* Model of package secrets (gocloud.dev/secrets): the Keeper facade       *)
(* (Encrypt, Decrypt, ErrorAs, wrapError) and the URLMux scheme registry   *)
(* (RegisterKeeper, OpenKeeper, OpenKeeperURL, the default mux).           *)
(*                                                                         *)
(* Strings are sequences of one-character strings, byte slices are         *)
(* sequences of numbers in 0..255.                                         *)
(***************************************************************************)
EXTENDS Integers, Sequences, FiniteSets

VARIABLES
    defaultURLMux,  \* the URLMux behind DefaultURLMux() and the package OpenKeeper
    userMux,        \* a URLMux constructed by the application
    lastOp,         \* the last registry operation and its outcome
    everRegistered, \* history: the <<registry, scheme>> pairs RegisterKeeper has stored
    keeper,         \* the Keeper under test: [k, tracer]
    pc,             \* per call: position inside Encrypt / Decrypt
    method,         \* per call: "Encrypt" or "Decrypt"
    arg,            \* per call: the caller's byte slice
    ctx,            \* per call: the context returned by tracer.Start
    b,              \* per call: local b (bytes returned by the driver)
    err,            \* per call: the named result err
    ret,            \* per call: the returned byte slice
    trace,          \* per call: the events of this invocation, in order
    sink,           \* the observability sink: span ends and measurements
    lastErrorAs     \* the last ErrorAs call and its outcome

muxVars == <<defaultURLMux, userMux, lastOp, everRegistered>>
callVars == <<pc, method, arg, ctx, b, err, ret, trace, sink>>
vars == <<defaultURLMux, userMux, lastOp, everRegistered, keeper, pc, method, arg, ctx, b, err,
          ret, trace, sink, lastErrorAs>>

----------------------------------------------------------------------------
(* Strings *)

HasPrefix(s, p) == Len(s) >= Len(p) /\ SubSeq(s, 1, Len(p)) = p

\* strings.Index for a one-character needle, 1-based; 0 when absent
Index(s, c) ==
    IF \E i \in 1..Len(s) : s[i] = c
    THEN CHOOSE i \in 1..Len(s) : s[i] = c /\ \A j \in 1..(i-1) : s[j] # c
    ELSE 0

\* strings.LastIndex for a one-character needle, 1-based; 0 when absent
LastIndex(s, c) ==
    IF \E i \in 1..Len(s) : s[i] = c
    THEN CHOOSE i \in 1..Len(s) : s[i] = c /\ \A j \in (i+1)..Len(s) : s[j] # c
    ELSE 0

ToLower(s) == [i \in 1..Len(s) |-> IF s[i] = "M" THEN "m" ELSE s[i]]

IsLetter(c) == c \in {"m", "M"}

----------------------------------------------------------------------------
(* net/url.Parse, as called by URLMux.OpenKeeper, on the characters         *)
(* "m", "M", ":", "/" and " ".                                             *)

NoURL == [Scheme |-> <<>>, Opaque |-> <<>>, Host |-> <<>>, Path |-> <<>>]

\* getScheme: the scan for "scheme:" at the start of the string
RECURSIVE getSchemeFrom(_, _)
getSchemeFrom(rawurl, i) ==
    IF i > Len(rawurl) THEN [scheme |-> <<>>, rest |-> rawurl, err |-> "nil"]
    ELSE IF IsLetter(rawurl[i]) THEN getSchemeFrom(rawurl, i + 1)
    ELSE IF rawurl[i] = ":" THEN
        IF i = 1 THEN [scheme |-> <<>>, rest |-> <<>>, err |-> "missing protocol scheme"]
        ELSE [scheme |-> SubSeq(rawurl, 1, i - 1),
              rest |-> SubSeq(rawurl, i + 1, Len(rawurl)), err |-> "nil"]
    ELSE [scheme |-> <<>>, rest |-> rawurl, err |-> "nil"]

getScheme(rawurl) == getSchemeFrom(rawurl, 1)

\* validOptionalPort: "" or ":" followed by digits (the alphabet has no digit)
validOptionalPort(port) == port = <<>> \/ port = <<":">>

\* parseHost: the port check, then the characters a host may hold
parseHostErr(host) ==
    IF LastIndex(host, ":") # 0
       /\ ~validOptionalPort(SubSeq(host, LastIndex(host, ":"), Len(host)))
    THEN "invalid port"
    ELSE IF \E i \in 1..Len(host) : host[i] = " "
    THEN "invalid character in host name"
    ELSE "nil"

\* the part of url.Parse after the scheme has been split off
parseRest(scheme, rest) ==
    IF ~HasPrefix(rest, <<"/">>) THEN
        IF scheme # <<>> THEN
            [url |-> [Scheme |-> scheme, Opaque |-> rest, Host |-> <<>>, Path |-> <<>>],
             err |-> "nil"]
        ELSE
            LET cut == Index(rest, "/")
                segment == IF cut = 0 THEN rest ELSE SubSeq(rest, 1, cut - 1)
            IN IF Index(segment, ":") # 0
               THEN [url |-> NoURL, err |-> "first path segment in URL cannot contain colon"]
               ELSE [url |-> [Scheme |-> scheme, Opaque |-> <<>>, Host |-> <<>>, Path |-> rest],
                     err |-> "nil"]
    ELSE IF (scheme # <<>> \/ ~HasPrefix(rest, <<"/", "/", "/">>))
            /\ HasPrefix(rest, <<"/", "/">>) THEN
        LET after == SubSeq(rest, 3, Len(rest))
            cut == Index(after, "/")
            authority == IF cut = 0 THEN after ELSE SubSeq(after, 1, cut - 1)
            path == IF cut = 0 THEN <<>> ELSE SubSeq(after, cut, Len(after))
        IN IF parseHostErr(authority) # "nil"
           THEN [url |-> NoURL, err |-> parseHostErr(authority)]
           ELSE [url |-> [Scheme |-> scheme, Opaque |-> <<>>, Host |-> authority, Path |-> path],
                 err |-> "nil"]
    ELSE [url |-> [Scheme |-> scheme, Opaque |-> <<>>, Host |-> <<>>, Path |-> rest],
          err |-> "nil"]

\* url.Parse(urlstr): [url, err]; the scheme is lower-cased
Parse(urlstr) ==
    LET s == getScheme(urlstr)
    IN IF s.err # "nil" THEN [url |-> NoURL, err |-> s.err]
       ELSE parseRest(ToLower(s.scheme), s.rest)

----------------------------------------------------------------------------
(* Keeper construction *)

pkgName == "gocloud.dev/secrets"

latencyMeasure == "gocloud.dev/secrets/latency"

\* the drivers (implementations of driver.Keeper) the model binds Keepers to
Backends == {"shift", "box"}

\* oc.ProviderName(k): the provider identity derived from the driver
ProviderName(k) == k

newKeeper(k) ==
    [k |-> k,
     tracer |-> [Package |-> pkgName, Provider |-> ProviderName(k),
                 LatencyMeasure |-> latencyMeasure]]

\* a nil *Keeper
NilKeeper ==
    [k |-> "nil", tracer |-> [Package |-> "", Provider |-> "", LatencyMeasure |-> ""]]

----------------------------------------------------------------------------
(* URLMux *)

NilOpener == "nil"
Openers == {NilOpener, "o1", "o2"}

\* the schemes RegisterKeeper is called with
Schemes == {<<>>, <<"m">>}

\* the strings OpenKeeper is called with
URLStrings ==
    { <<>>,
      <<"/", "m">>,
      <<"m", ":">>,
      <<"M", ":", "/", "/", "m">>,
      <<":", "m">>,
      <<"m", " ", "m", ":", "/", "/">>,
      <<"m", ":", "/", "/", " ">> }

\* the parsed URLs OpenKeeperURL is called with directly
URLs ==
    { [Scheme |-> s, Opaque |-> <<>>, Host |-> <<"m">>, Path |-> <<>>] :
        s \in {<<>>, <<"m">>, <<"M">>} }

\* the receivers of the URLMux methods: the default mux, a mux of the
\* application, and a nil *URLMux
Receivers == {"default", "user", "nil"}

\* map[string]KeeperURLOpener: nil, or a function from the keys present
NilMap == [isNil |-> TRUE, m |-> [k \in {} |-> NilOpener]]

\* the zero value of URLMux
ZeroMux == [schemes |-> NilMap]

\* m[key] on a Go map: the zero value when the map is nil or lacks the key
MapGet(schemes, key) ==
    IF key \in DOMAIN schemes.m THEN schemes.m[key] ELSE NilOpener

\* _, exists := m[key]
MapHas(schemes, key) == key \in DOMAIN schemes.m

\* m[key] = value on a non-nil map
MapPut(schemes, key, value) ==
    [isNil |-> FALSE,
     m |-> [k \in (DOMAIN schemes.m) \cup {key} |->
                IF k = key THEN value ELSE schemes.m[k]]]

NilErr == [kind |-> "nil", url |-> NoURL, scheme |-> <<>>, detail |-> "nil"]

\* what opener.OpenKeeperURL(ctx, u) returns: a Keeper of the opener's
\* driver, or the failure of the driver's construction
OpenerCall(opener, u, ok) ==
    IF ok
    THEN [keeper |-> newKeeper(IF opener = "o1" THEN "shift" ELSE "box"), err |-> NilErr]
    ELSE [keeper |-> NilKeeper,
          err |-> [kind |-> "open", url |-> u, scheme |-> u.Scheme, detail |-> opener]]

\* a RegisterKeeper without the test for a registered scheme
RegisterKeeperOverwrites(mux, scheme, opener) ==
    IF mux.schemes.isNil
    THEN [mux |-> [schemes |-> MapPut(NilMap, scheme, opener)], panic |-> "none"]
    ELSE [mux |-> [schemes |-> MapPut(mux.schemes, scheme, opener)], panic |-> "none"]

\* a RegisterKeeper that tests the stored opener against nil instead of the
\* presence of the key
RegisterKeeperTestsOpener(mux, scheme, opener) ==
    IF mux.schemes.isNil
    THEN [mux |-> [schemes |-> MapPut(NilMap, scheme, opener)], panic |-> "none"]
    ELSE IF MapGet(mux.schemes, scheme) # NilOpener
    THEN [mux |-> mux, panic |-> "duplicate"]
    ELSE [mux |-> [schemes |-> MapPut(mux.schemes, scheme, opener)], panic |-> "none"]

\* (mux *URLMux) RegisterKeeper(scheme, opener) on a non-nil mux: the mux
\* afterwards and whether the call panicked
RegisterKeeperResult(mux, scheme, opener) ==
    IF mux.schemes.isNil
    THEN [mux |-> [schemes |-> MapPut(NilMap, scheme, opener)], panic |-> "none"]
    ELSE IF MapHas(mux.schemes, scheme)
    THEN [mux |-> mux, panic |-> "duplicate"]
    ELSE [mux |-> [schemes |-> MapPut(mux.schemes, scheme, opener)], panic |-> "none"]

\* the three failures of OpenKeeper / OpenKeeperURL
OpenFailure(kind, u, scheme, detail, lookups, panic) ==
    [keeper |-> NilKeeper,
     err |-> [kind |-> kind, url |-> u, scheme |-> scheme, detail |-> detail],
     invoked |-> <<>>, lookups |-> lookups, panic |-> panic]

\* return opener.OpenKeeperURL(ctx, u)
Dispatch(opener, u, ok, lookups) ==
    [keeper |-> OpenerCall(opener, u, ok).keeper,
     err |-> OpenerCall(opener, u, ok).err,
     invoked |-> <<[opener |-> opener, url |-> u]>>,
     lookups |-> lookups, panic |-> "none"]

\* an OpenKeeperURL without the test for an empty scheme
OpenKeeperURLNoSchemeTest(isNilMux, mux, u, ok) ==
    LET opener == IF ~isNilMux THEN MapGet(mux.schemes, u.Scheme) ELSE NilOpener
        lookups == IF ~isNilMux THEN <<u.Scheme>> ELSE <<>>
    IN IF opener = NilOpener
       THEN OpenFailure("no provider registered", u, u.Scheme, "nil", lookups, "none")
       ELSE Dispatch(opener, u, ok, lookups)

\* an OpenKeeperURL without the test for a nil mux
OpenKeeperURLNoNilTest(isNilMux, mux, u, ok) ==
    IF u.Scheme = <<>>
    THEN OpenFailure("no scheme in URL", u, <<>>, "nil", <<>>, "none")
    ELSE IF isNilMux
    THEN OpenFailure("nil", NoURL, <<>>, "nil", <<>>, "nil dereference")
    ELSE IF MapGet(mux.schemes, u.Scheme) = NilOpener
    THEN OpenFailure("no provider registered", u, u.Scheme, "nil", <<u.Scheme>>, "none")
    ELSE Dispatch(MapGet(mux.schemes, u.Scheme), u, ok, <<u.Scheme>>)

\* an OpenKeeperURL that returns the opener's Keeper and drops its error
OpenKeeperURLDropsError(isNilMux, mux, u, ok) ==
    LET opener == IF ~isNilMux THEN MapGet(mux.schemes, u.Scheme) ELSE NilOpener
        lookups == IF ~isNilMux THEN <<u.Scheme>> ELSE <<>>
    IN IF u.Scheme = <<>>
       THEN OpenFailure("no scheme in URL", u, <<>>, "nil", <<>>, "none")
       ELSE IF opener = NilOpener
       THEN OpenFailure("no provider registered", u, u.Scheme, "nil", lookups, "none")
       ELSE [Dispatch(opener, u, ok, lookups) EXCEPT !.err = NilErr]

\* (mux *URLMux) OpenKeeperURL(ctx, u): the returned pair, the map lookups
\* and opener calls made, and whether the call panicked; ok is whether the
\* opener's construction succeeds
OpenKeeperURLResult(isNilMux, mux, u, ok) ==
    LET opener == IF ~isNilMux THEN MapGet(mux.schemes, u.Scheme) ELSE NilOpener
        lookups == IF ~isNilMux THEN <<u.Scheme>> ELSE <<>>
    IN IF u.Scheme = <<>>
       THEN OpenFailure("no scheme in URL", u, <<>>, "nil", <<>>, "none")
       ELSE IF opener = NilOpener
       THEN OpenFailure("no provider registered", u, u.Scheme, "nil", lookups, "none")
       ELSE Dispatch(opener, u, ok, lookups)

\* (mux *URLMux) OpenKeeper(ctx, urlstr)
OpenKeeperResult(isNilMux, mux, urlstr, ok) ==
    LET p == Parse(urlstr)
    IN IF p.err # "nil"
       THEN OpenFailure("parse", NoURL, <<>>, p.err, <<>>, "none")
       ELSE OpenKeeperURLResult(isNilMux, mux, p.url, ok)

MuxOf(recv) == IF recv = "default" THEN defaultURLMux ELSE userMux

NoOp ==
    [op |-> "none", recv |-> "nil", scheme |-> <<>>, opener |-> NilOpener,
     urlstr |-> <<>>, url |-> NoURL, ok |-> FALSE, keeper |-> NilKeeper,
     err |-> NilErr, invoked |-> <<>>, lookups |-> <<>>, panic |-> "none"]

\* the record of an OpenKeeper / OpenKeeperURL call; ok is kept when an
\* opener ran
Opened(op, recv, urlstr, u, ok, r) ==
    [NoOp EXCEPT !.op = op, !.recv = recv, !.urlstr = urlstr, !.url = u,
                 !.ok = (ok /\ r.invoked # <<>>), !.keeper = r.keeper,
                 !.err = r.err, !.invoked = r.invoked, !.lookups = r.lookups,
                 !.panic = r.panic]

\* mux.RegisterKeeper(scheme, opener); a nil receiver panics reading mux.schemes
RegisterKeeper(recv, scheme, opener) ==
    LET r == RegisterKeeperResult(MuxOf(recv), scheme, opener)
        done(panic) == [NoOp EXCEPT !.op = "RegisterKeeper", !.recv = recv,
                                    !.scheme = scheme, !.opener = opener,
                                    !.panic = panic]
    IN IF recv = "nil"
       THEN /\ lastOp' = done("nil dereference")
            /\ UNCHANGED <<defaultURLMux, userMux, everRegistered, keeper, callVars,
                           lastErrorAs>>
       ELSE /\ lastOp' = done(r.panic)
            /\ defaultURLMux' = IF recv = "default" THEN r.mux ELSE defaultURLMux
            /\ userMux' = IF recv = "user" THEN r.mux ELSE userMux
            /\ everRegistered' = IF r.panic = "none"
                                 THEN everRegistered \cup {<<recv, scheme>>}
                                 ELSE everRegistered
            /\ UNCHANGED <<keeper, callVars, lastErrorAs>>

\* mux.OpenKeeperURL(ctx, u)
OpenKeeperURL(recv, u, ok) ==
    /\ lastOp' = Opened("OpenKeeperURL", recv, <<>>, u, ok,
                        OpenKeeperURLResult(recv = "nil", MuxOf(recv), u, ok))
    /\ UNCHANGED <<defaultURLMux, userMux, everRegistered, keeper, callVars,
                   lastErrorAs>>

\* mux.OpenKeeper(ctx, urlstr)
OpenKeeper(recv, urlstr, ok) ==
    /\ lastOp' = Opened("OpenKeeper", recv, urlstr, NoURL, ok,
                        OpenKeeperResult(recv = "nil", MuxOf(recv), urlstr, ok))
    /\ UNCHANGED <<defaultURLMux, userMux, everRegistered, keeper, callVars,
                   lastErrorAs>>

\* DefaultURLMux()
DefaultURLMux == "default"

\* a package OpenKeeper that resolves on another mux than the default one
PkgOpenKeeperResultOtherMux(urlstr, ok) ==
    OpenKeeperResult(FALSE, userMux, urlstr, ok)

\* the package-level OpenKeeper(ctx, urlstr): defaultURLMux.OpenKeeper
PkgOpenKeeperResult(urlstr, ok) ==
    OpenKeeperResult(FALSE, defaultURLMux, urlstr, ok)

PkgOpenKeeper(urlstr, ok) ==
    /\ lastOp' = Opened("secrets.OpenKeeper", DefaultURLMux, urlstr, NoURL, ok,
                        PkgOpenKeeperResult(urlstr, ok))
    /\ UNCHANGED <<defaultURLMux, userMux, everRegistered, keeper, callVars,
                   lastErrorAs>>

----------------------------------------------------------------------------
(* Errors *)

NilError == [tag |-> "nil"]

\* the errors a driver returns; doNotWrap is the marker gcerr.DoNotWrap reads
RawError(id, dnw) == [tag |-> "raw", id |-> id, doNotWrap |-> dnw]

RawErrors ==
    { RawError("denied", FALSE), RawError("invalid", FALSE),
      RawError("notfound", FALSE), RawError("canceled", TRUE) }

\* the failures a driver call may end with, whatever its input
DriverFailures == { RawError("denied", FALSE), RawError("canceled", TRUE) }

\* gcerr.DoNotWrap(err)
DoNotWrap(e) == e.tag = "raw" /\ e.doNotWrap

\* gcerr.New(code, err, callDepth, msg): the normalized error
GcerrNew(code, e, msg) == [tag |-> "gcerr", Code |-> code, msg |-> msg, err |-> e]

----------------------------------------------------------------------------
(* Drivers: two implementations of driver.Keeper *)

NilBytes == <<>>

\* k.Encrypt(ctx, plaintext) when the driver does not fail
DriverEncrypt(k, plaintext) ==
    IF k = "shift"
    THEN [i \in 1..Len(plaintext) |-> (plaintext[i] + 1) % 256]
    ELSE <<9>> \o plaintext

\* k.Decrypt(ctx, ciphertext) when the driver does not fail for other reasons
DriverDecrypt(k, ciphertext) ==
    IF k = "shift"
    THEN [b |-> [i \in 1..Len(ciphertext) |-> (ciphertext[i] + 255) % 256],
          err |-> NilError]
    ELSE IF Len(ciphertext) >= 1 /\ ciphertext[1] = 9
    THEN [b |-> Tail(ciphertext), err |-> NilError]
    ELSE [b |-> NilBytes, err |-> RawError("invalid", FALSE)]

\* k.ErrorCode(err)
DriverErrorCode(k, e) ==
    IF k = "shift"
    THEN (IF e.tag = "raw" /\ e.id = "denied" THEN "PermissionDenied"
          ELSE IF e.tag = "raw" /\ e.id = "notfound" THEN "NotFound"
          ELSE "Unknown")
    ELSE (IF e.tag = "raw" /\ e.id = "invalid" THEN "InvalidArgument"
          ELSE "Internal")

\* k.ErrorAs(err, i): can the driver store err in the target
DriverErrorAs(k, e, target) ==
    /\ e.tag = "raw"
    /\ \/ k = "shift" /\ target = "*shiftErr" /\ e.id \in {"denied", "notfound"}
       \/ k = "box" /\ target = "*boxErr" /\ e.id = "invalid"

----------------------------------------------------------------------------
(* oc.Tracer *)

\* tracer.Start(ctx, methodName): the context carrying the span and its tags
TracerStart(tracer, methodName) ==
    [span |-> <<tracer.Package, methodName>>, method |-> methodName,
     provider |-> tracer.Provider]

\* the status a span end and a completed_calls sample are tagged with
Status(e) ==
    IF e = NilError THEN "OK"
    ELSE IF e.tag = "gcerr" THEN e.Code
    ELSE "Unknown"

\* tracer.End(ctx, err): the records handed to the observability sink
TracerEnd(tracer, c, cx, e) ==
    { [call |-> c, kind |-> "span end", span |-> cx.span, method |-> cx.method,
       provider |-> cx.provider, status |-> Status(e), err |-> e],
      [call |-> c, kind |-> tracer.LatencyMeasure, span |-> cx.span,
       method |-> cx.method, provider |-> cx.provider, status |-> "nil", err |-> NilError],
      [call |-> c, kind |-> "completed_calls", span |-> cx.span, method |-> cx.method,
       provider |-> cx.provider, status |-> Status(e), err |-> NilError] }

----------------------------------------------------------------------------
(* Keeper.Encrypt and Keeper.Decrypt *)

NCalls == 2

Calls == 1..NCalls

Methods == {"Encrypt", "Decrypt"}

Payloads == {<<>>, <<255>>}

\* the byte slices callers pass: payloads and the ciphertexts of payloads
Inputs == Payloads \cup { DriverEncrypt(keeper.k, p) : p \in Payloads }

NoCtx == [span |-> <<>>, method |-> "", provider |-> ""]

\* a wrapError without the pass-through of marked errors
wrapErrorAlwaysWraps(k, e) == GcerrNew(DriverErrorCode(k.k, e), e, "secrets")

wrapError(k, e) ==
    IF DoNotWrap(e) THEN e
    ELSE GcerrNew(DriverErrorCode(k.k, e), e, "secrets")

\* return statements that return the named byte result, which is never assigned
KeeperReturnNamedResult(k, bb, e) ==
    IF e # NilError
    THEN [ret |-> NilBytes, err |-> wrapError(k, e)]
    ELSE [ret |-> NilBytes, err |-> NilError]

\* the return statements of Encrypt / Decrypt, after the driver returned (bb, e)
KeeperReturn(k, bb, e) ==
    IF e # NilError
    THEN [ret |-> NilBytes, err |-> wrapError(k, e)]
    ELSE [ret |-> bb, err |-> NilError]

\* ctx = k.tracer.Start(ctx, "Encrypt" / "Decrypt"); the deferred End is armed
StartCall(c, m, data) ==
    /\ pc[c] = "idle"
    /\ pc' = [pc EXCEPT ![c] = "started"]
    /\ method' = [method EXCEPT ![c] = m]
    /\ arg' = [arg EXCEPT ![c] = data]
    /\ ctx' = [ctx EXCEPT ![c] = TracerStart(keeper.tracer, m)]
    /\ trace' = [trace EXCEPT ![c] = Append(@, [ev |-> "start", name |-> m])]
    /\ UNCHANGED <<b, err, ret, sink, keeper, muxVars, lastErrorAs>>

\* what k.k.Encrypt / k.k.Decrypt returns for data; fail is the failure the
\* driver meets (NilError: none)
DriverResult(k, m, data, fail) ==
    IF fail # NilError THEN [b |-> NilBytes, err |-> fail]
    ELSE IF m = "Encrypt" THEN [b |-> DriverEncrypt(k, data), err |-> NilError]
    ELSE DriverDecrypt(k, data)

\* b, err := k.k.Encrypt(ctx, plaintext) / k.k.Decrypt(ctx, ciphertext)
DriverCall(c, fail) ==
    /\ pc[c] = "started"
    /\ LET r == DriverResult(keeper.k, method[c], arg[c], fail)
       IN /\ b' = [b EXCEPT ![c] = r.b]
          /\ err' = [err EXCEPT ![c] = r.err]
          /\ trace' = [trace EXCEPT ![c] =
                          Append(@, [ev |-> "driver", name |-> method[c],
                                     ctx |-> ctx[c], arg |-> arg[c],
                                     b |-> r.b, err |-> r.err])]
    /\ pc' = [pc EXCEPT ![c] = "called"]
    /\ UNCHANGED <<method, arg, ctx, ret, sink, keeper, muxVars, lastErrorAs>>

\* a FinishCall whose tracer keeps the context of the latest Start in a field
\* shared by all calls
FinishCallSharedCtx(c) ==
    /\ pc[c] = "called"
    /\ \E d \in Calls :
        /\ pc[d] # "idle"
        /\ LET r == KeeperReturn(keeper, b[c], err[c])
           IN /\ ret' = [ret EXCEPT ![c] = r.ret]
              /\ err' = [err EXCEPT ![c] = r.err]
              /\ trace' = [trace EXCEPT ![c] =
                              Append(@, [ev |-> "end", name |-> ctx[d].method,
                                         err |-> r.err])]
              /\ sink' = sink \cup TracerEnd(keeper.tracer, c, ctx[d], r.err)
    /\ pc' = [pc EXCEPT ![c] = "done"]
    /\ UNCHANGED <<method, arg, ctx, b, keeper, muxVars, lastErrorAs>>

\* a FinishCall for "defer k.tracer.End(ctx, err)": err is evaluated when the
\* defer statement runs, before the driver is called
FinishCallEagerDefer(c) ==
    /\ pc[c] = "called"
    /\ LET r == KeeperReturn(keeper, b[c], err[c])
       IN /\ ret' = [ret EXCEPT ![c] = r.ret]
          /\ err' = [err EXCEPT ![c] = r.err]
          /\ trace' = [trace EXCEPT ![c] =
                          Append(@, [ev |-> "end", name |-> ctx[c].method,
                                     err |-> NilError])]
          /\ sink' = sink \cup TracerEnd(keeper.tracer, c, ctx[c], NilError)
    /\ pc' = [pc EXCEPT ![c] = "done"]
    /\ UNCHANGED <<method, arg, ctx, b, keeper, muxVars, lastErrorAs>>

\* the return statement, then the deferred k.tracer.End(ctx, err)
FinishCall(c) ==
    /\ pc[c] = "called"
    /\ LET r == KeeperReturn(keeper, b[c], err[c])
       IN /\ ret' = [ret EXCEPT ![c] = r.ret]
          /\ err' = [err EXCEPT ![c] = r.err]
          /\ trace' = [trace EXCEPT ![c] =
                          Append(@, [ev |-> "end", name |-> ctx[c].method,
                                     err |-> r.err])]
          /\ sink' = sink \cup TracerEnd(keeper.tracer, c, ctx[c], r.err)
    /\ pc' = [pc EXCEPT ![c] = "done"]
    /\ UNCHANGED <<method, arg, ctx, b, keeper, muxVars, lastErrorAs>>

----------------------------------------------------------------------------
(* Keeper.ErrorAs *)

\* the targets ErrorAs is called with: nil, a non-pointer, a nil pointer, and
\* pointers to error types
Targets == {"nil", "int", "(*T)(nil)", "*shiftErr", "*boxErr", "*string"}

ValidTarget(target) == target \in {"*shiftErr", "*boxErr", "*string"}

\* the errors ErrorAs is called with: nil, driver errors, normalized errors
ErrorAsErrs ==
    {NilError} \cup RawErrors
        \cup { wrapError(newKeeper(k), e) : k \in Backends, e \in RawErrors }

\* gcerr.ErrorAs(err, target, errorAs)
GcerrErrorAs(e, target, k) ==
    IF ~ValidTarget(target)
    THEN [result |-> FALSE, panic |-> TRUE, driverCalls |-> <<>>]
    ELSE IF e = NilError
    THEN [result |-> FALSE, panic |-> FALSE, driverCalls |-> <<>>]
    ELSE LET inner == IF e.tag = "gcerr" THEN e.err ELSE e
         IN [result |-> DriverErrorAs(k, inner, target), panic |-> FALSE,
             driverCalls |-> <<[err |-> inner, target |-> target]>>]

\* an ErrorAs that hands err and i to the driver directly
KeeperErrorAsDirect(k, e, target) ==
    [result |-> DriverErrorAs(k.k, e, target), panic |-> FALSE,
     driverCalls |-> <<[err |-> e, target |-> target]>>]

\* (k *Keeper) ErrorAs(err, i)
KeeperErrorAs(k, e, target) == GcerrErrorAs(e, target, k.k)

NoErrorAs ==
    [called |-> FALSE, err |-> NilError, target |-> "nil", result |-> FALSE,
     panic |-> FALSE, driverCalls |-> <<>>]

ErrorAs(e, target) ==
    /\ LET r == KeeperErrorAs(keeper, e, target)
       IN lastErrorAs' = [called |-> TRUE, err |-> e, target |-> target,
                          result |-> r.result, panic |-> r.panic,
                          driverCalls |-> r.driverCalls]
    /\ UNCHANGED <<keeper, callVars, muxVars>>

----------------------------------------------------------------------------
(* Specifications *)

InitMux ==
    /\ defaultURLMux = ZeroMux
    /\ userMux = ZeroMux
    /\ lastOp = NoOp
    /\ everRegistered = {}

InitCalls ==
    /\ pc = [c \in Calls |-> "idle"]
    /\ method = [c \in Calls |-> ""]
    /\ arg = [c \in Calls |-> NilBytes]
    /\ ctx = [c \in Calls |-> NoCtx]
    /\ b = [c \in Calls |-> NilBytes]
    /\ err = [c \in Calls |-> NilError]
    /\ ret = [c \in Calls |-> NilBytes]
    /\ trace = [c \in Calls |-> <<>>]
    /\ sink = {}

InitErrorAs == lastErrorAs = NoErrorAs

\* any Keeper the constructors build
Init ==
    /\ InitMux
    /\ InitCalls
    /\ InitErrorAs
    /\ keeper \in { newKeeper(k) : k \in Backends }

\* the registry: RegisterKeeper, OpenKeeperURL, OpenKeeper, package OpenKeeper
NextMux ==
    \/ \E recv \in Receivers, scheme \in Schemes, opener \in Openers :
           RegisterKeeper(recv, scheme, opener)
    \/ \E recv \in Receivers, u \in URLs, ok \in BOOLEAN :
           OpenKeeperURL(recv, u, ok)
    \/ \E recv \in Receivers, urlstr \in URLStrings, ok \in BOOLEAN :
           OpenKeeper(recv, urlstr, ok)
    \/ \E urlstr \in URLStrings, ok \in BOOLEAN :
           PkgOpenKeeper(urlstr, ok)

\* the registries of a process that holds one Keeper and does not call it
InitOneKeeper ==
    /\ defaultURLMux = ZeroMux
    /\ userMux = ZeroMux
    /\ lastOp = NoOp
    /\ everRegistered = {}
    /\ keeper = newKeeper("shift")
    /\ pc = [c \in Calls |-> "idle"]
    /\ method = [c \in Calls |-> ""]
    /\ arg = [c \in Calls |-> NilBytes]
    /\ ctx = [c \in Calls |-> NoCtx]
    /\ b = [c \in Calls |-> NilBytes]
    /\ err = [c \in Calls |-> NilError]
    /\ ret = [c \in Calls |-> NilBytes]
    /\ trace = [c \in Calls |-> <<>>]
    /\ sink = {}
    /\ lastErrorAs = NoErrorAs

SpecMux == InitOneKeeper /\ [][NextMux]_vars

\* concurrent Encrypt / Decrypt calls on one Keeper
NextCalls ==
    \/ \E c \in Calls, m \in Methods, data \in Inputs : StartCall(c, m, data)
    \/ \E c \in Calls, fail \in {NilError} \cup DriverFailures : DriverCall(c, fail)
    \/ \E c \in Calls : FinishCall(c)

SpecCalls == Init /\ [][NextCalls]_vars

\* ErrorAs calls on one Keeper
NextErrorAs == \E e \in ErrorAsErrs, target \in Targets : ErrorAs(e, target)

SpecErrorAs == Init /\ [][NextErrorAs]_vars

Next == NextMux \/ NextCalls \/ NextErrorAs

Spec == Init /\ [][Next]_vars

----------------------------------------------------------------------------
(* Properties of the registry, checked under SpecMux *)

IsOpen == lastOp.op \in {"OpenKeeper", "OpenKeeperURL", "secrets.OpenKeeper"}

\* the last open was given a string, and the string parsed
ParseFailed == lastOp.op \in {"OpenKeeper", "secrets.OpenKeeper"}
                   /\ Parse(lastOp.urlstr).err # "nil"

\* the URL the last open dispatched on
OpURL == IF lastOp.op = "OpenKeeperURL" THEN lastOp.url ELSE Parse(lastOp.urlstr).url

\* the opener the receiver of the last operation holds for a scheme
Registered(scheme) ==
    IF lastOp.recv = "nil" THEN NilOpener
    ELSE MapGet(MuxOf(lastOp.recv).schemes, scheme)

\* C1: on a non-nil registry, RegisterKeeper(s, o) panics with the duplicate
\* registration exactly when an earlier RegisterKeeper(s, _) on the same
\* registry has completed, whatever the two openers are; otherwise it
\* completes without a panic.
C1_DuplicateRegistrationPanics ==
    [][(lastOp'.op = "RegisterKeeper" /\ lastOp'.recv # "nil")
          => lastOp'.panic = (IF <<lastOp'.recv, lastOp'.scheme>> \in everRegistered
                              THEN "duplicate" ELSE "none")]_vars

\* a scheme first registered with a nil opener is registered again with a
\* non-nil one, and the call panics
C1_Witness ==
    /\ lastOp.op = "RegisterKeeper"
    /\ lastOp.panic = "duplicate"
    /\ lastOp.opener # NilOpener
    /\ Registered(lastOp.scheme) = NilOpener

\* C3: an open of a well-formed URL with a non-empty scheme for which the
\* receiver (nil or not) holds no opener, or a nil opener, returns an error
\* naming the scheme and no Keeper, calls no opener and does not panic.
C3_UnregisteredSchemeFails ==
    (IsOpen /\ ~ParseFailed /\ OpURL.Scheme # <<>>
        /\ Registered(OpURL.Scheme) = NilOpener)
      => /\ lastOp.err.kind = "no provider registered"
         /\ lastOp.err.scheme = OpURL.Scheme
         /\ lastOp.keeper = NilKeeper
         /\ lastOp.invoked = <<>>
         /\ lastOp.panic = "none"

\* the scheme is registered with a nil opener, and the string's scheme is
\* lower-cased to it
C3_Witness ==
    /\ lastOp.op = "OpenKeeper"
    /\ lastOp.recv = "user"
    /\ lastOp.urlstr = <<"M", ":", "/", "/", "m">>
    /\ MapHas(userMux.schemes, <<"m">>)
    /\ lastOp.err.kind = "no provider registered"

\* C4: an open of a string that does not parse returns the parse error and
\* looks no scheme up; an open of a URL with an empty scheme returns the
\* missing-scheme error; neither calls an opener nor returns a Keeper, also
\* with an opener registered for the empty scheme.
C4_MalformedAndSchemelessFail ==
    /\ ParseFailed
         => /\ lastOp.err.kind = "parse"
            /\ lastOp.err.detail = Parse(lastOp.urlstr).err
            /\ lastOp.lookups = <<>>
            /\ lastOp.invoked = <<>>
            /\ lastOp.keeper = NilKeeper
    /\ (IsOpen /\ ~ParseFailed /\ OpURL.Scheme = <<>>)
         => /\ lastOp.err.kind = "no scheme in URL"
            /\ lastOp.lookups = <<>>
            /\ lastOp.invoked = <<>>
            /\ lastOp.keeper = NilKeeper

\* a URL without a scheme is opened on a registry that holds an opener for
\* the empty scheme
C4_Witness ==
    /\ lastOp.op = "OpenKeeper"
    /\ lastOp.recv = "default"
    /\ lastOp.urlstr = <<"/", "m">>
    /\ MapGet(defaultURLMux.schemes, <<>>) = "o1"
    /\ lastOp.err.kind = "no scheme in URL"

\* C5: an open of a URL whose non-empty scheme has a non-nil opener o calls
\* o, and only o, once with that URL and returns what o returned; OpenKeeper
\* of a string is OpenKeeperURL of the parsed string; the package OpenKeeper
\* is OpenKeeper on the default mux.
C5_DispatchesToRegisteredOpener ==
    /\ (IsOpen /\ ~ParseFailed /\ OpURL.Scheme # <<>>
          /\ Registered(OpURL.Scheme) # NilOpener)
         => /\ lastOp.invoked = <<[opener |-> Registered(OpURL.Scheme), url |-> OpURL]>>
            /\ lastOp.keeper = OpenerCall(Registered(OpURL.Scheme), OpURL, lastOp.ok).keeper
            /\ lastOp.err = OpenerCall(Registered(OpURL.Scheme), OpURL, lastOp.ok).err
            /\ lastOp.panic = "none"
    /\ (lastOp.op = "OpenKeeper" /\ ~ParseFailed)
         => lastOp = Opened("OpenKeeper", lastOp.recv, lastOp.urlstr, NoURL, lastOp.ok,
                            OpenKeeperURLResult(lastOp.recv = "nil", MuxOf(lastOp.recv),
                                                Parse(lastOp.urlstr).url, lastOp.ok))
    /\ lastOp.op = "secrets.OpenKeeper"
         => lastOp = Opened("secrets.OpenKeeper", "default", lastOp.urlstr, NoURL,
                            lastOp.ok,
                            OpenKeeperResult(FALSE, defaultURLMux, lastOp.urlstr,
                                             lastOp.ok))

\* the opener of "m" fails to construct its Keeper while another opener is
\* registered on the same mux
C5_Witness ==
    /\ lastOp.op = "OpenKeeper"
    /\ lastOp.recv = "user"
    /\ lastOp.urlstr = <<"M", ":", "/", "/", "m">>
    /\ MapGet(userMux.schemes, <<"m">>) = "o2"
    /\ MapGet(userMux.schemes, <<>>) = "o1"
    /\ lastOp.invoked # <<>>
    /\ lastOp.err.kind = "open"

\* C10: every step keeps every scheme -> opener entry of both registries; a
\* RegisterKeeper that completes adds exactly its entry to its receiver; a
\* RegisterKeeper that panics and every open leave both registries unchanged.
C10_RegistryOnlyGrows ==
    [][/\ \A s \in DOMAIN defaultURLMux.schemes.m :
            /\ s \in DOMAIN defaultURLMux'.schemes.m
            /\ defaultURLMux'.schemes.m[s] = defaultURLMux.schemes.m[s]
       /\ \A s \in DOMAIN userMux.schemes.m :
            /\ s \in DOMAIN userMux'.schemes.m
            /\ userMux'.schemes.m[s] = userMux.schemes.m[s]
       /\ (lastOp'.op = "RegisterKeeper" /\ lastOp'.panic = "none")
            => /\ defaultURLMux' = IF lastOp'.recv = "default"
                                   THEN [schemes |-> MapPut(defaultURLMux.schemes,
                                                            lastOp'.scheme, lastOp'.opener)]
                                   ELSE defaultURLMux
               /\ userMux' = IF lastOp'.recv = "user"
                             THEN [schemes |-> MapPut(userMux.schemes,
                                                      lastOp'.scheme, lastOp'.opener)]
                             ELSE userMux
       /\ (lastOp'.op # "RegisterKeeper" \/ lastOp'.panic # "none")
            => UNCHANGED <<defaultURLMux, userMux>>]_vars

\* a full registry refuses a different opener for a registered scheme
C10_Witness ==
    /\ lastOp.op = "RegisterKeeper"
    /\ lastOp.recv = "default"
    /\ lastOp.panic = "duplicate"
    /\ DOMAIN defaultURLMux.schemes.m = Schemes
    /\ lastOp.opener = "o2"
    /\ MapGet(defaultURLMux.schemes, lastOp.scheme) = "o1"

----------------------------------------------------------------------------
(* Properties of Encrypt / Decrypt, checked under SpecCalls *)

Done(c) == pc[c] = "done"

\* what the driver returned to call c
DriverEvent(c) == trace[c][2]

\* C2: a driver error carrying the do-not-wrap marker is returned as it is;
\* any other driver error is returned as a normalized error, different from
\* the driver's, whose code is the driver's ErrorCode of it and whose cause
\* it is.
C2_ErrorsNormalizedUnlessMarked ==
    \A c \in Calls :
        (Done(c) /\ DriverEvent(c).err # NilError)
          => IF DoNotWrap(DriverEvent(c).err)
             THEN err[c] = DriverEvent(c).err
             ELSE /\ err[c] # DriverEvent(c).err
                  /\ err[c].tag = "gcerr"
                  /\ err[c].Code = DriverErrorCode(keeper.k, DriverEvent(c).err)
                  /\ err[c].err = DriverEvent(c).err

\* one call returned a marked error, another a normalized one
C2_Witness ==
    \E c, d \in Calls :
        /\ Done(c) /\ DriverEvent(c).err = RawError("canceled", TRUE)
        /\ Done(d) /\ DriverEvent(d).err = RawError("invalid", FALSE)
        /\ err[d].tag = "gcerr"

\* C6: if Encrypt(P) returned C without error and Decrypt(C) returned without
\* error, Decrypt returned P; a call without error returns the bytes the
\* driver returned, and the driver was given the caller's bytes.
C6_RoundTrip ==
    /\ \A c, d \in Calls :
         (/\ Done(c) /\ method[c] = "Encrypt" /\ err[c] = NilError
          /\ Done(d) /\ method[d] = "Decrypt" /\ err[d] = NilError
          /\ arg[d] = ret[c])
           => ret[d] = arg[c]
    /\ \A c \in Calls :
         (Done(c) /\ err[c] = NilError)
           => /\ ret[c] = DriverEvent(c).b
              /\ DriverEvent(c).arg = arg[c]

\* a payload whose ciphertext differs from it is encrypted, then decrypted
C6_Witness ==
    \E c, d \in Calls :
        /\ Done(c) /\ method[c] = "Encrypt" /\ err[c] = NilError
        /\ arg[c] = <<255>> /\ ret[c] # arg[c]
        /\ Done(d) /\ method[d] = "Decrypt" /\ err[d] = NilError
        /\ arg[d] = ret[c]

\* the records the sink holds for call c
SinkOf(c) == { r \in sink : r.call = c }

C7_CallsIndependent ==
    \A c \in Calls :
        /\ SinkOf(c) # {} => Done(c)
        /\ Done(c) =>
            /\ DriverEvent(c).name = method[c]
            /\ DriverEvent(c).arg = arg[c]
            /\ DriverEvent(c).err = NilError
                 => /\ DriverEvent(c).b
                          = DriverResult(keeper.k, method[c], arg[c], NilError).b
                    /\ ret[c] = DriverEvent(c).b
                    /\ err[c] = NilError
            /\ DriverEvent(c).err # NilError
                 => /\ ret[c] = NilBytes
                    /\ err[c] = wrapError(keeper, DriverEvent(c).err)
            /\ Cardinality(SinkOf(c)) = 3
            /\ \A r \in SinkOf(c) :
                 /\ r.method = method[c]
                 /\ r.span = <<pkgName, method[c]>>
                 /\ r.provider = ProviderName(keeper.k)
                 /\ r.kind \in {"span end", "completed_calls"}
                      => r.status = Status(err[c])

\* C7: in every interleaving of the calls on one Keeper, a finished call has
\* the result the driver produced for its own method and input, its sink
\* records carry its own method and status, and no step changes the Keeper.
C7_ConcurrentCallsDoNotInterfere ==
    /\ []C7_CallsIndependent
    /\ [][keeper' = keeper /\ keeper = newKeeper(keeper.k)]_vars

\* two finished calls of one Keeper with different methods and statuses
C7_Witness ==
    /\ Done(1) /\ Done(2)
    /\ method[1] = "Encrypt" /\ method[2] = "Decrypt"
    /\ err[1] # NilError /\ err[2] = NilError
    /\ Cardinality(sink) = 6

\* C8: an invocation is one tracer.Start tagged with its method, then one
\* driver call of that method (none after a failure), then one tracer.End;
\* End is given the error the invocation returns, nil exactly when the
\* driver call succeeded.
C8_OneStartOneDriverCallOneEnd ==
    \A c \in Calls :
        /\ pc[c] = "idle" => trace[c] = <<>>
        /\ pc[c] # "idle" => trace[c][1] = [ev |-> "start", name |-> method[c]]
        /\ pc[c] = "started" => Len(trace[c]) = 1
        /\ pc[c] \in {"called", "done"}
             => /\ trace[c][2].ev = "driver"
                /\ trace[c][2].name = method[c]
        /\ pc[c] = "called" => Len(trace[c]) = 2
        /\ Done(c)
             => /\ Len(trace[c]) = 3
                /\ trace[c][3] = [ev |-> "end", name |-> method[c], err |-> err[c]]
                /\ (err[c] = NilError) <=> (trace[c][2].err = NilError)

\* an invocation whose driver call failed has ended its span with the
\* normalized error it returned
C8_Witness ==
    \E c \in Calls :
        /\ Done(c)
        /\ method[c] = "Decrypt"
        /\ trace[c][2].err = RawError("denied", FALSE)
        /\ trace[c][3].err.tag = "gcerr"

----------------------------------------------------------------------------
(* Properties of ErrorAs, checked under SpecErrorAs *)

====
